---------------------------- MODULE Spec2Model ----------------------------
(***************************************************************************)
(* Document reconstruction and hybrid field extraction of the grant-notice *)
(* analyser (agents/extractor_agent.py, driven by run_extractor_agent in   *)
(* main.py).                                                               *)
(*                                                                         *)
(* Python strings that the code inspects character by character (strip,    *)
(* split, slicing, substring tests, strptime) are sequences of one-        *)
(* character strings.  Dictionary keys, which the code only compares       *)
(* whole, are TLA+ strings.  A value stored in the extracted record is a   *)
(* tagged record [t, v]: t is the Python type ("str", or "number" / "null" *)
(* for a value that came out of json.loads), v its text.                   *)
(***************************************************************************)
EXTENDS Integers, Sequences, FiniteSets, TLC

VARIABLES
    vector_store,     \* rag_system.vector_store: "loaded" or "none" (rag.py:25)
    current_metadata, \* reader_agent_instance.current_metadata
    filename,         \* display filename handed to run_extractor_agent
    output_file,      \* json_description/<json_filename> on disk
    pc,               \* position of the run_extractor_agent worker
    source_file,      \* main.py:105
    results,          \* what similarity_search returned (extractor_agent.py:28)
    all_chunks,       \* extractor_agent.py:25, after the sort of line 45
    full_document,    \* the reconstructed text, as a sequence of segments
    field_idx,        \* position of the loop of extractor_agent.py:206
    extracted_data,   \* the record under construction
    oggi,             \* datetime.now() read at extractor_agent.py:265
    pre_validation,   \* history: extracted_data when the consistency pass starts
    calls,            \* history: the collaborator calls made so far, in order
    devs,             \* history: how many collaborator answers deviated so far
    rag_system,       \* the rag_system argument of extract_structured_info_hybrid:
                      \* "unset" before the call, "reader" (main.py:116) or
                      \* "None" (extractor_agent.py:369)
    exchange,         \* history: the latest exchange with the model and how the
                      \* code handled it
    index,            \* the fragments held by the vector store, the nearest to
                      \* the query first (followed in SpecIndex only)
    context,          \* history: the fragments the latest retrieval supplied
    main_pc,          \* position of main() (main.py:216), "off" when
                      \* run_extractor_agent is followed on its own
    document_context, \* main.py:270, the text get_most_relevant_document gave
    main_log,         \* history: the joins, is_alive() answers and reports of main
    writer_thread     \* main.py:343: "unstarted", "alive", "finished", "killed"

vars == <<vector_store, current_metadata, filename, output_file, pc, source_file,
          results, all_chunks, full_document, field_idx, extracted_data, oggi,
          pre_validation, calls, devs,
          rag_system, exchange, index, context, main_pc, document_context,
          main_log, writer_thread>>

\* What only the index-backed searches change, and what only main() changes.
store_vars == <<index, context>>
main_vars == <<main_pc, document_context, main_log, writer_thread>>

-----------------------------------------------------------------------------
(* Bounds of the model                                                     *)

\* Largest number of fragments one similarity_search answer holds.
MaxFrags == 3
\* Pages are 0..MaxPage (PyPDFLoader numbers pages from 0).
MaxPage == 2
\* A run's collaborators (retrieval, model, disk) deviate from their usual
\* answer at most this many times: a raised error or an unusual completion.
MaxDeviations == 2
\* Length in characters of the long fragment content.
LongChunkLen == 600
\* Largest number of runs of like fragments a store is made of.
MaxRuns == 2

(* Program constants                                                       *)

\* extractor_agent.py:30   k=200
SearchK == 200

\* extractor_agent.py:79   rag_system.generate(query, k=3)
FieldK == 3

\* extractor_agent.py:220  if len(full_document) > 500
DescThreshold == 500

-----------------------------------------------------------------------------
(* Python string operations                                                *)

\* str.strip() with no argument removes leading and trailing whitespace.
IsSpace(c) == c \in {" ", "\n", "\t", "\r"}

RECURSIVE LStrip(_)
LStrip(s) == IF s # <<>> /\ IsSpace(Head(s)) THEN LStrip(Tail(s)) ELSE s

RECURSIVE RStrip(_)
RStrip(s) ==
    IF s # <<>> /\ IsSpace(s[Len(s)]) THEN RStrip(SubSeq(s, 1, Len(s) - 1)) ELSE s

Strip(s) == RStrip(LStrip(s))

\* Position of the first occurrence of character c in s, 0 when there is none.
RECURSIVE IndexOfFrom(_, _, _)
IndexOfFrom(s, c, i) ==
    IF i > Len(s) THEN 0
    ELSE IF s[i] = c THEN i
    ELSE IndexOfFrom(s, c, i + 1)

IndexOf(s, c) == IndexOfFrom(s, c, 1)

\* s.split(c) for a one-character separator: always at least one component.
RECURSIVE Split(_, _)
Split(s, c) ==
    LET k == IndexOf(s, c)
    IN  IF k = 0 THEN <<s>>
        ELSE <<SubSeq(s, 1, k - 1)>> \o Split(SubSeq(s, k + 1, Len(s)), c)

\* s.split(c, 1): at most one split.
SplitOnce(s, c) ==
    LET k == IndexOf(s, c)
    IN  IF k = 0 THEN <<s>>
        ELSE <<SubSeq(s, 1, k - 1), SubSeq(s, k + 1, Len(s))>>

\* needle in s
Contains(s, needle) ==
    \E i \in 1..(Len(s) - Len(needle) + 1) :
        SubSeq(s, i, i + Len(needle) - 1) = needle

SentinelText == <<"N","o","n"," ","s","p","e","c","i","f","i","c","a","t","o">>

Str(s) == [t |-> "str", v |-> s]

\* The sentinel "Non specificato" as a record value.
Sentinel == Str(SentinelText)

\* dict with one more (or one replaced) entry: d[k] = v
Put(d, k, v) == (k :> v) @@ d

EmptyDict == [x \in {} |-> Sentinel]

-----------------------------------------------------------------------------
(* Fragments of the vector store                                           *)

Src1 == <<"d","b","/","a",".","p","d","f">>
Src2 == <<"d","b","/","b",".","p","d","f">>
Sources == {Src1, Src2}
Pages == 0..MaxPage

\* page_content is identified by a name; ContentLen is its len().
Contents == {"A", "L"}
ContentLen(c) == IF c = "L" THEN LongChunkLen ELSE 1

\* A metadata dict: keys is the set of keys it holds.
Meta(s, p) == [keys |-> {"source", "page"}, source |-> s, page |-> p]
EmptyMeta == [keys |-> {}, source |-> <<>>, page |-> 0]

Metadatas == {Meta(s, p) : s \in Sources, p \in Pages} \cup {EmptyMeta}

Fragments == [page_content : Contents, metadata : Metadatas]

\* sequences over S of length 0..n
SeqsUpTo(S, n) == UNION {[1..k -> S] : k \in 0..n}

-----------------------------------------------------------------------------
(* ExtractorAgent.reconstruct_full_document                                *)

\* metadata.get('source') == source_file
SourceMatches(metadata, src) ==
    "source" \in metadata.keys /\ metadata.source = src

\* metadata.get('page', 0)
PageOf(metadata) == IF "page" \in metadata.keys THEN metadata.page ELSE 0

\* A plausible slip: trusting the search's filter argument, keeping everything.
KeepsFragmentUnfiltered(doc, src) == src = src

\* The test of line 37.
KeepsFragment(doc, src) == SourceMatches(doc.metadata, src)

\* The loop of lines 35-42: the fragments that pass the test, in the order
\* of the answer, each as the dict of lines 38-42.
FilterChunks(res, src) ==
    LET kept == SelectSeq(res, LAMBDA doc : KeepsFragment(doc, src))
    IN  [i \in 1..Len(kept) |->
           [content |-> kept[i].page_content,
            page |-> PageOf(kept[i].metadata),
            metadata |-> kept[i].metadata]]

\* An insertion that puts a chunk before the chunks of its own page.
InsertByPageUnstable(sorted, c) ==
    LET n == Cardinality({j \in 1..Len(sorted) : sorted[j].page < c.page})
    IN  SubSeq(sorted, 1, n) \o <<c>> \o SubSeq(sorted, n + 1, Len(sorted))

\* One insertion of list.sort(key=page): the chunk goes after every chunk
\* whose page is not larger (Python's sort is stable).
InsertByPage(sorted, c) ==
    LET n == Cardinality({j \in 1..Len(sorted) : sorted[j].page <= c.page})
    IN  SubSeq(sorted, 1, n) \o <<c>> \o SubSeq(sorted, n + 1, Len(sorted))

\* The chunks inserted one after the other, from the first to the last.  The
\* list is halved, and the first half is inserted (its length read) before
\* the second is begun, so that the evaluation stays shallow on a long list.
RECURSIVE InsertAll(_, _)
InsertAll(sorted, chunks) ==
    IF chunks = <<>> THEN sorted
    ELSE IF Len(chunks) = 1 THEN InsertByPage(sorted, chunks[1])
    ELSE LET h == Len(chunks) \div 2
             first == InsertAll(sorted, SubSeq(chunks, 1, h))
         IN  IF Len(first) = Len(sorted) + h
             THEN InsertAll(first, SubSeq(chunks, h + 1, Len(chunks)))
             ELSE <<>>

\* all_chunks.sort(key=lambda x: x['page'])    (line 45)
SortByPage(chunks) == InsertAll(<<>>, chunks)

MarkerSeg(p) == [kind |-> "marker", page |-> p, content |-> ""]
ChunkSeg(c) == [kind |-> "chunk", page |-> c.page, content |-> c.content]

\* A slip: a header before every chunk.
NeedsMarkerAlways(page, current_page) == page = page

\* line 52:  if chunk['page'] != current_page
NeedsMarker(page, current_page) == page # current_page

\* The loop of lines 51-55; current_page starts at -1 (line 49) and is the
\* page of the chunk before (line 54).  The list is halved so that the
\* evaluation stays shallow on a long list.
RECURSIVE JoinChunks(_, _)
JoinChunks(chunks, current_page) ==
    IF chunks = <<>> THEN <<>>
    ELSE IF Len(chunks) = 1
    THEN LET c == chunks[1]
         IN  (IF NeedsMarker(c.page, current_page)
              THEN <<MarkerSeg(c.page)>> ELSE <<>>) \o <<ChunkSeg(c)>>
    ELSE LET h == Len(chunks) \div 2
         IN  JoinChunks(SubSeq(chunks, 1, h), current_page)
                 \o JoinChunks(SubSeq(chunks, h + 1, Len(chunks)), chunks[h].page)

\* len(str(p)) for p >= 0
RECURSIVE Digits(_)
Digits(p) == IF p < 10 THEN 1 ELSE 1 + Digits(p \div 10)

\* len() of one segment: "\n\n--- PAGINA {p} ---\n\n", or content + "\n".
SegLen(seg) ==
    IF seg.kind = "marker" THEN 19 + Digits(seg.page)
    ELSE ContentLen(seg.content) + 1

RECURSIVE DocLen(_)
DocLen(doc) == IF doc = <<>> THEN 0 ELSE SegLen(Head(doc)) + DocLen(Tail(doc))

\* The answer of one similarity_search call: it raised, or returned docs.
SearchRaised == [raised |-> TRUE, docs |-> <<>>]
SearchReturned(r) == [raised |-> FALSE, docs |-> r]

\* On an error the function returns "" and leaves no chunks (lines 60-62).
ReconstructRaises(store, search) == store = "none" \/ search.raised

ChunksOf(search, src) == SortByPage(FilterChunks(search.docs, src))

\* A slip: no try/except around the search.
ReconstructCatchesNothing == FALSE

\* The except clause of line 60 catches every Exception.
ReconstructCatches == TRUE

\* What reconstruct_full_document computes: the chunks it kept (empty after
\* an error) and the text it returns ("" is the empty sequence).
reconstruct_full_document(store, search, src) ==
    IF ReconstructRaises(store, search)
    THEN [raised |-> ~ReconstructCatches, chunks |-> <<>>, text |-> <<>>]
    ELSE [raised |-> FALSE,
          chunks |-> ChunksOf(search, src),
          text |-> JoinChunks(ChunksOf(search, src), -1)]

-----------------------------------------------------------------------------
(* ReaderAgent.extract_filename_from_metadata, and the inputs of a run     *)

\* os.path.basename(path): what follows the last '/'.
Basename(path) == LET parts == Split(path, "/") IN parts[Len(parts)]

extract_filename_from_metadata(metadata) ==
    IF "source" \in metadata.keys THEN Basename(metadata.source) ELSE SentinelText

\* The metadata of the document the similarity lookup resolved for this run:
\* a fragment of the first source, or a fragment without metadata.
ResolvedMetadata == {Meta(Src1, 0), EmptyMeta}

\* current_metadata.get('source', '')   (main.py:105)
SourceFileOf(metadata) == IF "source" \in metadata.keys THEN metadata.source ELSE <<>>

NoFile == [state |-> "absent", data |-> EmptyDict]
StaleFile == [state |-> "stale", data |-> EmptyDict]

\* datetime values are <<year, month, day, hour>>; NoClock before the read.
NoClock == <<0, 0, 0, 0>>

\* An exchange with the model: where it happened (site), what the model did
\* (kind, text), the validator's verdict on the trimmed text when a validator
\* ran, and whether the code ended in the except clause around the call.
Exchange(site, kind, text, verdict, excepted) ==
    [site |-> site, kind |-> kind, text |-> text, verdict |-> verdict,
     excepted |-> excepted]

NoExchange == Exchange("", "none", <<>>, "none", FALSE)

\* One collaborator call: ok is FALSE when it raised.
Call(op, site, ok) == [op |-> op, site |-> site, ok |-> ok]

Init ==
    /\ vector_store \in {"loaded", "none"}
    /\ current_metadata \in ResolvedMetadata
    /\ filename = extract_filename_from_metadata(current_metadata)
    /\ output_file \in {NoFile, StaleFile}
    /\ pc = "start"
    /\ source_file = <<>>
    /\ results = <<>>
    /\ all_chunks = <<>>
    /\ full_document = <<>>
    /\ field_idx = 0
    /\ extracted_data = EmptyDict
    /\ oggi = NoClock
    /\ pre_validation = EmptyDict
    /\ calls = <<>>
    /\ devs = 0
    /\ exchange = NoExchange
    /\ rag_system = "unset"
    /\ index = <<>>
    /\ context = <<>>
    /\ main_pc = "off"
    /\ document_context = <<>>
    /\ main_log = <<>>
    /\ writer_thread = "unstarted"

-----------------------------------------------------------------------------
(* run_extractor_agent, lines 104-113: reconstruction                      *)

\* Every answer a search may give within the bounds.
AnySearchAnswers ==
    {SearchRaised} \cup {SearchReturned(r) : r \in SeqsUpTo(Fragments, MaxFrags)}

FragA == [page_content |-> "A", metadata |-> Meta(Src1, 0)]
FragL == [page_content |-> "L", metadata |-> Meta(Src1, 1)]
FragOther == [page_content |-> "A", metadata |-> Meta(Src2, 0)]

\* The answers followed through a whole run: an error, nothing, fragments of
\* another source only, a short document, a long one.
RunSearchAnswers ==
    {SearchRaised, SearchReturned(<<>>), SearchReturned(<<FragOther>>),
     SearchReturned(<<FragOther, FragA>>), SearchReturned(<<FragL, FragA>>)}

Reconstruct(answers) ==
    /\ pc = "start"
    /\ \E search \in answers :
         LET src == SourceFileOf(current_metadata)
             out == reconstruct_full_document(vector_store, search, src)
         IN  /\ vector_store = "none" => search = SearchRaised
             /\ source_file' = src
             /\ results' = search.docs
             /\ calls' = Append(calls, Call("search", "reconstruct",
                                          ~ReconstructRaises(vector_store, search)))
             /\ all_chunks' = out.chunks
             /\ full_document' = out.text
             /\ pc' = IF out.raised THEN "failed" ELSE "reconstructed"
    /\ UNCHANGED <<store_vars, main_vars>>
    /\ UNCHANGED <<exchange, rag_system, vector_store, current_metadata,
                   filename, output_file,
                   field_idx, extracted_data, oggi, pre_validation, devs>>

\* A slip: the test of the reconstructed text left out.
DocumentUsableAlways(doc) == doc = doc

\* main.py:113  if full_document:   (a non-empty string is true)
DocumentUsable(doc) == doc # <<>>

\* main.py:113-120, and the else of line 158 where the run stops.
CheckDocument ==
    /\ pc = "reconstructed"
    /\ IF DocumentUsable(full_document)
       THEN pc' = "fields" /\ field_idx' = 1 /\ rag_system' = "reader"
       ELSE pc' = "halted" /\ field_idx' = field_idx /\ rag_system' = rag_system
    /\ UNCHANGED <<store_vars, main_vars>>
    /\ UNCHANGED <<exchange, vector_store, current_metadata, filename, output_file,
                   source_file, results, all_chunks, full_document,
                   extracted_data, oggi, pre_validation, calls, devs>>

ReconstructAny == Reconstruct(AnySearchAnswers)

NextRecon == ReconstructAny \/ CheckDocument

\* Reconstruction alone, over every search answer within the bounds.
SpecRecon == Init /\ [][NextRecon]_vars

-----------------------------------------------------------------------------
(* ExtractorAgent.extract_field_with_rag                                   *)

\* A slip: the two date entries of field_configs written the other way round.
FieldOrderSwapped ==
    <<"Ente erogatore", "Titolo dell'avviso", "Chiusura", "Apertura",
      "Dotazione finanziaria", "Contributo", "Beneficiari">>

\* field_configs, in the order of the dict (lines 155-199).
FieldOrder ==
    <<"Ente erogatore", "Titolo dell'avviso", "Apertura", "Chiusura",
      "Dotazione finanziaria", "Contributo", "Beneficiari">>

\* A slip: the validators left out of field_configs.
HasValidatorNever(field_name) == field_name = ""

\* 'validator' in field_config   (lines 173, 180)
HasValidator(field_name) == field_name \in {"Apertura", "Chiusura"}

\* A slip: a validator that lets everything through.
ValidatorAcceptsAll(x) == IF x = x THEN "accept" ELSE "reject"

\* The validator lambda of lines 173 and 180:
\*   x == "Non specificato" or (len(x.split('/')) == 3 and x[2] == '/')
\* x[2] raises IndexError on a string shorter than three characters.
Validator(x) ==
    IF x = SentinelText THEN "accept"
    ELSE IF Len(Split(x, "/")) # 3 THEN "reject"
    ELSE IF Len(x) < 3 THEN "error"
    ELSE IF x[3] = "/" THEN "accept"
    ELSE "reject"

\* The outcome of the two collaborator calls of one field: the retrieval
\* raised, the model call raised, or the model returned a completion.
RagError == [kind |-> "rag_error", text |-> <<>>]
LlmError == [kind |-> "llm_error", text |-> <<>>]
Answer(text) == [kind |-> "text", text |-> text]

\* A slip: the model call outside the try block.
FieldCatchesNothing == FALSE

\* The except clause of line 139 catches every Exception.
FieldCatches == TRUE

\* extract_field_with_rag: the value returned, or raised when an error escapes.
extract_field_with_rag(field_name, outcome) ==
    IF outcome.kind # "text"
    THEN [raised |-> ~FieldCatches, value |-> Sentinel]
    ELSE LET value == Strip(outcome.text)
         IN  IF HasValidator(field_name)
             THEN CASE Validator(value) = "accept" ->
                         [raised |-> FALSE, value |-> Str(value)]
                    [] Validator(value) = "reject" ->
                         [raised |-> FALSE, value |-> Sentinel]
                    [] OTHER ->
                         [raised |-> ~FieldCatches, value |-> Sentinel]
             ELSE [raised |-> FALSE, value |-> Str(value)]

\* The calls one field extraction makes: the retrieval, then the model unless
\* the retrieval raised (lines 79 and 126).
FieldCalls(field_name, outcome) ==
    IF outcome.kind = "rag_error" THEN <<Call("rag", field_name, FALSE)>>
    ELSE <<Call("rag", field_name, TRUE),
           Call("llm", field_name, outcome.kind = "text")>>

\* What the validator said of the trimmed completion (lines 132-133).
FieldVerdict(field_name, outcome) ==
    IF outcome.kind = "text" /\ HasValidator(field_name)
    THEN Validator(Strip(outcome.text))
    ELSE "none"

\* The exchange of one extract_field_with_rag call; the except clause of
\* line 139 is entered when a collaborator or the validator raised.
FieldExchange(field_name, outcome) ==
    Exchange(field_name, outcome.kind, outcome.text,
             FieldVerdict(field_name, outcome),
             outcome.kind # "text" \/ FieldVerdict(field_name, outcome) = "error")

(* Completions of the model                                                *)

TextAnswer == <<" ","R","L","\n">>
BlankAnswer == <<" ","\n">>
DateA == <<"0","1","/","0","6","/","2","0","2","5">>
DateC == <<"3","0","/","0","6","/","2","0","2","5">>
DashDate == <<"3","1","-","1","2","-","2","0","2","4">>
ShortDate == <<"1","/","7","/","2","0","2","5">>
NoSuchDay == <<"3","1","/","0","2","/","2","0","2","5">>

\* The usual completion for a field: the value the prompt asks for.
UsualAnswer(field_name) ==
    IF field_name = "Apertura" THEN DateA
    ELSE IF field_name = "Chiusura" THEN DateC
    ELSE TextAnswer

UnusualAnswers(field_name) ==
    IF HasValidator(field_name)
    THEN {SentinelText, DashDate, ShortDate, NoSuchDay}
    ELSE {SentinelText, BlankAnswer}

FieldOutcomes(field_name) ==
    {RagError, LlmError, Answer(UsualAnswer(field_name))}
        \cup {Answer(a) : a \in UnusualAnswers(field_name)}

\* rag_system.generate raises when rag_system is None (AttributeError) and
\* when its vector store is not loaded (rag.py:156-157).
RetrievalUnavailable(rag, store) == rag = "None" \/ store = "none"

UsualOutcome(field_name, rag, store) ==
    IF RetrievalUnavailable(rag, store) THEN RagError
    ELSE Answer(UsualAnswer(field_name))

\* The loop body of lines 206-214 for the field at field_idx.
ExtractField ==
    /\ pc = "fields"
    /\ LET field_name == FieldOrder[field_idx]
       IN  \E outcome \in FieldOutcomes(field_name) :
             LET out == extract_field_with_rag(field_name, outcome)
                 odd == outcome # UsualOutcome(field_name, rag_system, vector_store)
             IN  /\ RetrievalUnavailable(rag_system, vector_store) => outcome = RagError
                 /\ odd => devs < MaxDeviations
                 /\ devs' = IF odd THEN devs + 1 ELSE devs
                 /\ calls' = calls \o FieldCalls(field_name, outcome)
                 /\ exchange' = FieldExchange(field_name, outcome)
                 /\ IF out.raised
                    THEN /\ pc' = "failed"
                         /\ UNCHANGED <<extracted_data, field_idx>>
                    ELSE /\ extracted_data' = Put(extracted_data, field_name, out.value)
                         /\ IF field_idx < Len(FieldOrder)
                            THEN pc' = pc /\ field_idx' = field_idx + 1
                            ELSE pc' = "description" /\ field_idx' = field_idx
    /\ UNCHANGED <<store_vars, main_vars>>
    /\ UNCHANGED <<rag_system, vector_store, current_metadata, filename,
                   output_file,
                   source_file, results, all_chunks, full_document, oggi,
                   pre_validation>>

-----------------------------------------------------------------------------
(* Derived fields, lines 216-287                                           *)

DescAnswer == <<" ","S","i","n","t","e","s","i","\n">>
KwAnswer == <<"a",","," ","b">>
FallbackDesc == <<"B","a","n","d","o"," ","p","e","r"," ","i","l"," ","f","i","n","a","n","z","i","a","m","e","n","t","o"," ","d","i"," ","p","r","o","g","e","t","t","i"," ","i","n","n","o","v","a","t","i","v","i">>
FallbackKw == <<"i","n","n","o","v","a","z","i","o","n","e",","," ","d","i","g","i","t","a","l","i","z","z","a","z","i","o","n","e",","," ","P","M","I",","," ","L","o","m","b","a","r","d","i","a">>

\* line 220:  if len(full_document) > 500
WantsDescription(doc) == DocLen(doc) > DescThreshold

\* A slip: a failed call leaves the sentinel rather than the fallback.
DerivedTextSentinel(outcome, fallback) ==
    IF outcome.kind = "text" THEN Str(Strip(outcome.text)) ELSE Sentinel

\* lines 235-238 and 253-256: the stripped completion, or the fallback.
DerivedText(outcome, fallback) ==
    IF outcome.kind = "text" THEN Str(Strip(outcome.text)) ELSE Str(fallback)

SynthesisOutcomes(usual) == {LlmError, Answer(usual), Answer(BlankAnswer)}

\* lines 219-238
DeriveDescription ==
    /\ pc = "description"
    /\ IF WantsDescription(full_document)
       THEN \E outcome \in SynthesisOutcomes(DescAnswer) :
              LET odd == outcome # Answer(DescAnswer)
              IN  /\ odd => devs < MaxDeviations
                  /\ devs' = IF odd THEN devs + 1 ELSE devs
                  /\ calls' = Append(calls, Call("llm", "Descrizione aggiuntiva",
                                             outcome.kind = "text"))
                  /\ extracted_data' =
                       Put(extracted_data, "Descrizione aggiuntiva",
                           DerivedText(outcome, FallbackDesc))
       ELSE UNCHANGED <<extracted_data, calls, devs>>
    /\ pc' = "keywords"
    /\ UNCHANGED <<store_vars, main_vars>>
    /\ UNCHANGED <<exchange, rag_system, vector_store, current_metadata,
                   filename, output_file,
                   source_file, results, all_chunks, full_document, field_idx,
                   oggi, pre_validation>>

\* lines 240-256
DeriveKeywords ==
    /\ pc = "keywords"
    /\ \E outcome \in SynthesisOutcomes(KwAnswer) :
         LET odd == outcome # Answer(KwAnswer)
         IN  /\ odd => devs < MaxDeviations
             /\ devs' = IF odd THEN devs + 1 ELSE devs
             /\ calls' = Append(calls, Call("llm", "Parole chiave", outcome.kind = "text"))
             /\ extracted_data' =
                  Put(extracted_data, "Parole chiave", DerivedText(outcome, FallbackKw))
    /\ pc' = "status"
    /\ UNCHANGED <<store_vars, main_vars>>
    /\ UNCHANGED <<exchange, rag_system, vector_store, current_metadata,
                   filename, output_file,
                   source_file, results, all_chunks, full_document, field_idx,
                   oggi, pre_validation>>

(* datetime.strptime(chiusura, "%d/%m/%Y") and the comparison of line 271   *)

DigitChars == <<"0","1","2","3","4","5","6","7","8","9">>
IsDigit(c) == \E i \in 1..10 : DigitChars[i] = c
DigitVal(c) == (CHOOSE i \in 1..10 : DigitChars[i] = c) - 1

AllDigits(s) == \A i \in 1..Len(s) : IsDigit(s[i])

RECURSIVE ToNat(_)
ToNat(s) ==
    IF s = <<>> THEN 0
    ELSE 10 * ToNat(SubSeq(s, 1, Len(s) - 1)) + DigitVal(s[Len(s)])

IsLeap(y) == (y % 4 = 0 /\ y % 100 # 0) \/ y % 400 = 0

DaysInMonth(y, m) ==
    IF m = 2 THEN (IF IsLeap(y) THEN 29 ELSE 28)
    ELSE IF m \in {4, 6, 9, 11} THEN 30
    ELSE 31

\* %d and %m take one or two digits, %Y exactly four; the day must exist in
\* the month.  ok is FALSE where strptime raises ValueError.  The value is
\* midnight of that day.
Strptime(s) ==
    LET parts == Split(s, "/")
        bad == [ok |-> FALSE, at |-> NoClock]
    IN  IF Len(parts) # 3 THEN bad
        ELSE LET dd == parts[1]
                 mm == parts[2]
                 yy == parts[3]
             IN  IF ~(/\ Len(dd) \in {1, 2} /\ AllDigits(dd)
                      /\ Len(mm) \in {1, 2} /\ AllDigits(mm)
                      /\ Len(yy) = 4 /\ AllDigits(yy))
                 THEN bad
                 ELSE LET d == ToNat(dd)
                          m == ToNat(mm)
                          y == ToNat(yy)
                      IN  IF /\ y >= 1
                             /\ m \in 1..12
                             /\ d >= 1
                             /\ d <= DaysInMonth(y, m)
                          THEN [ok |-> TRUE, at |-> <<y, m, d, 0>>]
                          ELSE bad

\* a <= b on datetime values: year, month, day, then time of day.
RECURSIVE LexLE(_, _)
LexLE(a, b) ==
    IF a = <<>> THEN TRUE
    ELSE IF Head(a) # Head(b) THEN Head(a) < Head(b)
    ELSE LexLE(Tail(a), Tail(b))

Si == <<"s","i">>
No == <<"n","o">>

\* strptime tabulated over the completions a date field can be given, so
\* that it is computed once for each of them.
DateTexts ==
    {Strip(a) : a \in {UsualAnswer("Chiusura"), UsualAnswer("Apertura")}
                        \cup UnusualAnswers("Chiusura")}

StrptimeOf == [s \in DateTexts |-> Strptime(s)]

\* lines 262-284: the value given to "Aperto".
OpenStatus(chiusura, now) ==
    IF chiusura # Sentinel
    THEN LET data_chiusura == IF chiusura.v \in DateTexts
                              THEN StrptimeOf[chiusura.v]
                              ELSE Strptime(chiusura.v)
         IN  IF ~data_chiusura.ok THEN Sentinel
             ELSE IF LexLE(now, data_chiusura.at) THEN Str(Si)
             ELSE Str(No)
    ELSE Sentinel

\* The instants datetime.now() may return: around the usual closing day.
Clock ==
    {<<2025, 6, 29, 12>>, <<2025, 6, 30, 0>>, <<2025, 6, 30, 12>>, <<2025, 7, 1, 0>>}

\* lines 258-287: the open status, then the file name.
DeriveStatus ==
    /\ pc = "status"
    /\ LET chiusura == extracted_data["Chiusura"]
       IN  \E now \in Clock :
             \* datetime.now() is read only when a closing date is present
             /\ oggi' = IF chiusura # Sentinel THEN now ELSE NoClock
             /\ chiusura = Sentinel => now = CHOOSE n \in Clock : TRUE
             /\ extracted_data' =
                  Put(Put(extracted_data, "Aperto", OpenStatus(chiusura, now)),
                      "Nome file", Str(filename))
             /\ pre_validation' = extracted_data'
    /\ pc' = "research"
    /\ UNCHANGED <<store_vars, main_vars>>
    /\ UNCHANGED <<exchange, rag_system, vector_store, current_metadata,
                   filename, output_file,
                   source_file, results, all_chunks, full_document, field_idx,
                   calls, devs>>

-----------------------------------------------------------------------------
(* Consistency pass, lines 289-358                                         *)

NeedleApertura == <<"A","p","e","r","t","u","r","a",":">>
NeedleChiusura == <<"C","h","i","u","s","u","r","a",":">>
NotFound == <<"N","o","n"," ","t","r","o","v","a","t","a">>

ResearchBoth == <<"A","p","e","r","t","u","r","a",":"," ","0","1","/","0","6","/","2","0","2","5","\n","C","h","i","u","s","u","r","a",":"," ","3","0","/","0","6","/","2","0","2","5">>
ResearchNone == <<"A","p","e","r","t","u","r","a",":"," ","N","o","n"," ","t","r","o","v","a","t","a","\n","C","h","i","u","s","u","r","a",":"," ","N","o","n"," ","t","r","o","v","a","t","a">>
ResearchLoose == <<"*","*","A","p","e","r","t","u","r","a",":","*","*"," ","0","6","/","2","0","2","5","\n","C","h","i","u","s","u","r","a",":"," ","n","/","d","\n">>

\* A slip: the re-search made whatever the dates hold.
NeedsResearchAlways(data) == "Apertura" \in DOMAIN data

\* line 293: a date is still "Non specificato"
NeedsResearch(data) == data["Apertura"] = Sentinel \/ data["Chiusura"] = Sentinel

\* lines 320, 325:  extracted_data.get(key) == "Non specificato"
MayFillDate(data, key) == data[key] = Sentinel

\* lines 321-323 and 326-328: the date read from one line, when accepted.
DateOfLine(line) == Strip(SplitOnce(line, ":")[2])
AcceptsDate(date_value) == date_value # NotFound /\ Contains(date_value, <<"/">>)

\* What the loop body reads off one line: the tests of lines 320 and 325, and
\* the date_value of lines 321 and 326 (computed only for a line with a ':').
ReadLine(line) ==
    [apertura |-> Contains(line, NeedleApertura),
     chiusura |-> Contains(line, NeedleChiusura),
     date_value |-> IF Contains(line, <<":">>) THEN DateOfLine(line) ELSE <<>>]

\* One iteration of the loop of line 319, on what was read off the line.
ApplyLine(data, line) ==
    IF line.apertura /\ MayFillDate(data, "Apertura")
    THEN IF AcceptsDate(line.date_value)
         THEN Put(data, "Apertura", Str(line.date_value))
         ELSE data
    ELSE IF line.chiusura /\ MayFillDate(data, "Chiusura")
    THEN IF AcceptsDate(line.date_value)
         THEN Put(data, "Chiusura", Str(line.date_value))
         ELSE data
    ELSE data

RECURSIVE ApplyLines(_, _)
ApplyLines(data, lines) ==
    IF lines = <<>> THEN data
    ELSE ApplyLines(ApplyLine(data, Head(lines)), Tail(lines))

\* date_response.strip().split('\n')   (line 318), each line read.
LinesOf(text) ==
    LET lines == Split(Strip(text), "\n")
    IN  [i \in 1..Len(lines) |-> ReadLine(lines[i])]

\* The lines of the re-search completions, computed once for each of them.
ResearchTexts == {ResearchBoth, ResearchNone, ResearchLoose}

ResearchLines == [t \in ResearchTexts |-> LinesOf(t)]

\* lines 314-331: the record after the re-search, whatever the model did.
ResearchResult(data, outcome) ==
    IF outcome.kind # "text" THEN data
    ELSE ApplyLines(data, IF outcome.text \in ResearchTexts
                          THEN ResearchLines[outcome.text]
                          ELSE LinesOf(outcome.text))

\* The bare except of line 330 is entered when the model call raised; the
\* parsing of lines 318-329 cannot raise on a string.
ResearchExcepts(outcome) == outcome.kind # "text"

ResearchOutcomes == {LlmError} \cup {Answer(t) : t \in ResearchTexts}

\* lines 292-331
DateResearch ==
    /\ pc = "research"
    /\ IF NeedsResearch(extracted_data)
       THEN \E outcome \in ResearchOutcomes :
              LET odd == outcome # Answer(ResearchBoth)
              IN  /\ odd => devs < MaxDeviations
                  /\ devs' = IF odd THEN devs + 1 ELSE devs
                  /\ calls' = Append(calls, Call("llm", "date_search", outcome.kind = "text"))
                  /\ extracted_data' = ResearchResult(extracted_data, outcome)
                  /\ exchange' = Exchange("date_search", outcome.kind, outcome.text,
                                         "none", ResearchExcepts(outcome))
       ELSE UNCHANGED <<extracted_data, calls, devs, exchange>>
    /\ pc' = "crosscheck"
    /\ UNCHANGED <<store_vars, main_vars>>
    /\ UNCHANGED <<rag_system, vector_store, current_metadata, filename,
                   output_file,
                   source_file, results, all_chunks, full_document, field_idx,
                   oggi, pre_validation>>

(* Whole-record cross-check, lines 333-358                                 *)

\* What lines 348-351 make of the completion: no braces found, json.loads
\* raised, or the object it returned as a sequence of <<key, value>> items.
NoJson == [kind |-> "no_json", items |-> <<>>]
BadJson == [kind |-> "bad_json", items |-> <<>>]
CheckError == [kind |-> "llm_error", items |-> <<>>]
JsonObject(items) == [kind |-> "object", items |-> items]

AllKeys ==
    <<"Ente erogatore", "Titolo dell'avviso", "Apertura", "Chiusura",
      "Dotazione finanziaria", "Contributo", "Beneficiari",
      "Descrizione aggiuntiva", "Parole chiave", "Aperto", "Nome file">>

\* value[:50] works on a str; on a number or None it raises TypeError.
Sliceable(value) == value.t = "str"

\* A slip: the guard of line 354 without its "is still unspecified" part.
MayCorrectAlways(data, key, value) == key \in DOMAIN data /\ value # Sentinel

\* line 354
MayCorrect(data, key, value) ==
    key \in DOMAIN data /\ data[key] = Sentinel /\ value # Sentinel

\* The loop of lines 353-356.  The print of line 356 raises on a value that
\* cannot be sliced, after the assignment of line 355: the loop stops there.
RECURSIVE MergeItems(_, _)
MergeItems(data, items) ==
    IF items = <<>> THEN data
    ELSE LET key == Head(items)[1]
             value == Head(items)[2]
         IN  IF MayCorrect(data, key, value)
             THEN IF Sliceable(value)
                  THEN MergeItems(Put(data, key, value), Tail(items))
                  ELSE Put(data, key, value)
             ELSE MergeItems(data, Tail(items))

\* lines 346-358
CrossCheckResult(data, outcome) ==
    IF outcome.kind = "object" THEN MergeItems(data, outcome.items) ELSE data

\* The loop of lines 353-356 raises at the first applied value that cannot
\* be sliced.
RECURSIVE MergeRaises(_, _)
MergeRaises(data, items) ==
    IF items = <<>> THEN FALSE
    ELSE LET key == Head(items)[1]
             value == Head(items)[2]
         IN  IF MayCorrect(data, key, value)
             THEN IF Sliceable(value)
                  THEN MergeRaises(Put(data, key, value), Tail(items))
                  ELSE TRUE
             ELSE MergeRaises(data, Tail(items))

\* The bare except of line 357 is entered when the model call raised, when
\* json.loads raised, and when the loop raised.
CrossCheckExcepts(data, outcome) ==
    \/ outcome.kind \in {"llm_error", "bad_json"}
    \/ outcome.kind = "object" /\ MergeRaises(data, outcome.items)

\* A slip: an except clause that lets the error through.
CrossCheckCatchesNothing == FALSE

\* The except of line 357 catches everything.
CrossCheckCatches == TRUE

Filler == Str(<<"X">>)
Number5 == [t |-> "number", v |-> <<"5">>]

\* The object that repeats the record it was shown.
Echo(data) ==
    JsonObject([i \in 1..Len(SelectSeq(AllKeys, LAMBDA k : k \in DOMAIN data)) |->
        LET k == SelectSeq(AllKeys, LAMBDA kk : kk \in DOMAIN data)[i]
        IN  <<k, data[k]>>])

\* An object that gives every canonical key (and one more) a new value.
FillAll == JsonObject([i \in 1..Len(AllKeys) |-> <<AllKeys[i], Filler>>]
                      \o << <<"Note", Filler>> >>)

\* An object whose first value is a number.
Typed == JsonObject(<< <<"Ente erogatore", Number5>>,
                       <<"Titolo dell'avviso", Filler>> >>)

CrossCheckOutcomes(data) == {CheckError, NoJson, BadJson, Echo(data), FillAll, Typed}

CrossCheck ==
    /\ pc = "crosscheck"
    /\ \E outcome \in CrossCheckOutcomes(extracted_data) :
         LET odd == outcome # Echo(extracted_data)
         IN  /\ odd => devs < MaxDeviations
             /\ devs' = IF odd THEN devs + 1 ELSE devs
             /\ calls' = Append(calls, Call("llm", "validation", outcome.kind # "llm_error"))
             /\ extracted_data' = CrossCheckResult(extracted_data, outcome)
             /\ exchange' = Exchange("validation", outcome.kind, <<>>, "none",
                                    CrossCheckExcepts(extracted_data, outcome))
             /\ pc' = IF CrossCheckExcepts(extracted_data, outcome) /\ ~CrossCheckCatches
                      THEN "failed"
                      ELSE IF rag_system = "None" THEN "returned" ELSE "save"
    /\ UNCHANGED <<store_vars, main_vars>>
    /\ UNCHANGED <<rag_system, vector_store, current_metadata, filename,
                   output_file,
                   source_file, results, all_chunks, full_document, field_idx,
                   oggi, pre_validation>>

-----------------------------------------------------------------------------
(* run_extractor_agent, lines 122-161: saving the record                   *)

DiskOutcomes == {"written", "open_error", "dump_error"}

\* The file after lines 128-135: open(..., 'w') truncates it, json.dump fills it.
FileAfter(file, data, disk) ==
    IF disk = "written" THEN [state |-> "written", data |-> data]
    ELSE IF disk = "dump_error" THEN [state |-> "partial", data |-> EmptyDict]
    ELSE file

\* lines 145 and 147 slice two values of the record after the save.
PreviewRaises(data) ==
    \E k \in {"Titolo dell'avviso", "Beneficiari"} :
        k \in DOMAIN data /\ ~Sliceable(data[k])

Persist ==
    /\ pc = "save"
    /\ \E disk \in DiskOutcomes :
         LET odd == disk # "written"
         IN  /\ odd => devs < MaxDeviations
             /\ devs' = IF odd THEN devs + 1 ELSE devs
             /\ calls' = Append(calls, Call("write", "json", disk = "written"))
             /\ output_file' = FileAfter(output_file, extracted_data, disk)
             /\ pc' = IF disk = "written" /\ PreviewRaises(extracted_data)
                      THEN "failed" ELSE "done"
    /\ UNCHANGED <<store_vars, main_vars>>
    /\ UNCHANGED <<exchange, rag_system, vector_store, current_metadata,
                   filename, source_file, results,
                   all_chunks, full_document, field_idx, extracted_data, oggi,
                   pre_validation>>

ReconstructRun == Reconstruct(RunSearchAnswers)

-----------------------------------------------------------------------------
(* ExtractorAgent.extract_structured_info, lines 363-369                   *)

\* A text handed in by the caller, as one segment of the given content.
PlainText(c) == <<[kind |-> "chunk", page |-> 0, content |-> c]>>

LegacyDocuments == {<<>>, PlainText("A"), PlainText("L")}

LegacyFilenames == {Basename(Src1), SentinelText}

\* The legacy entry point hands its arguments to the hybrid extraction with
\* rag_system None and source_file "" (line 369); its result goes back to
\* the caller, nothing is saved.
LegacyExtract ==
    /\ pc = "start"
    /\ \E doc \in LegacyDocuments, name \in LegacyFilenames :
         /\ full_document' = doc
         /\ filename' = name
    /\ source_file' = <<>>
    /\ rag_system' = "None"
    /\ field_idx' = 1
    /\ pc' = "fields"
    /\ UNCHANGED <<store_vars, main_vars>>
    /\ UNCHANGED <<exchange, vector_store, current_metadata, output_file, results,
                   all_chunks, extracted_data, oggi, pre_validation, calls, devs>>

Next ==
    \/ ReconstructRun
    \/ CheckDocument
    \/ ExtractField
    \/ DeriveDescription
    \/ DeriveKeywords
    \/ DeriveStatus
    \/ DateResearch
    \/ CrossCheck
    \/ Persist
    \/ LegacyExtract

\* One run of run_extractor_agent.
Spec == Init /\ [][Next]_vars

\* The worker runs straight-line code whose collaborator calls each return or
\* raise: a step that can be taken is taken.
SpecLive == Spec /\ WF_vars(Next)

-----------------------------------------------------------------------------
(* extract_field_with_rag called on its own, over every short completion   *)

\* Largest length of an enumerated completion.
MaxAnswerLen == 4

AnswerChars == {"1", "/", "-", " "}

Date3112 == <<"3","1","/","1","2","/","2","0","2","4">>
Dash3112 == <<"3","1","-","1","2","-","2","0","2","4">>

\* The completions tried: every string over AnswerChars up to MaxAnswerLen,
\* and the named dates and texts.
AnyCompletions ==
    SeqsUpTo(AnswerChars, MaxAnswerLen)
        \cup {Date3112, Dash3112, SentinelText, TextAnswer, DateA, DateC,
              DashDate, ShortDate, NoSuchDay}

AnyFieldOutcomes == {RagError, LlmError} \cup {Answer(a) : a \in AnyCompletions}

\* One call of extract_field_with_rag for one field of field_configs.
CallExtractField ==
    /\ pc = "start"
    /\ \E i \in 1..Len(FieldOrder) :
         \E outcome \in AnyFieldOutcomes :
           LET field_name == FieldOrder[i]
               out == extract_field_with_rag(field_name, outcome)
           IN  /\ vector_store = "none" => outcome = RagError
               /\ field_idx' = i
               /\ calls' = FieldCalls(field_name, outcome)
               /\ exchange' = FieldExchange(field_name, outcome)
               /\ extracted_data' = IF out.raised THEN extracted_data
                                    ELSE Put(EmptyDict, field_name, out.value)
               /\ pc' = IF out.raised THEN "failed" ELSE "field_returned"
    /\ UNCHANGED <<store_vars, main_vars>>
    /\ UNCHANGED <<rag_system, vector_store, current_metadata, filename,
                   output_file,
                   source_file, results, all_chunks, full_document, oggi,
                   pre_validation, devs>>

\* extract_field_with_rag alone.
SpecField == Init /\ [][CallExtractField]_vars

-----------------------------------------------------------------------------
(* The searches of a run over the fragments the store holds                *)

\* A run of n fragments with the same content and metadata.
Run(frag, n) == [i \in 1..n |-> frag]

RunLengths == {1, SearchK}

IndexRuns == {Run(f, n) : f \in {FragA, FragL, FragOther}, n \in RunLengths}

RECURSIVE Flatten(_)
Flatten(runs) == IF runs = <<>> THEN <<>> ELSE Head(runs) \o Flatten(Tail(runs))

\* The stores followed: up to MaxRuns runs of fragments, nearest first.
Indexes == {Flatten(runs) : runs \in SeqsUpTo(IndexRuns, MaxRuns)}

\* similarity_search(query, k): the k nearest fragments of the store.
TopK(ix, k) == SubSeq(ix, 1, IF Len(ix) < k THEN Len(ix) ELSE k)

\* extractor_agent.py:31  hasattr(rag_system.vector_store, 'filter'): the
\* FAISS store has no such attribute, so the filter argument is None.
StoreHasFilter == FALSE

\* The search of lines 28-32.
IndexSearch(ix, src) ==
    TopK(IF StoreHasFilter
         THEN SelectSeq(ix, LAMBDA doc : SourceMatches(doc.metadata, src))
         ELSE ix,
         SearchK)

\* rag.py:170  self.vector_store.similarity_search(query_text, k=k), called
\* with k=3 at extractor_agent.py:79.
FieldContext(ix) == TopK(ix, FieldK)

InitIndex ==
    /\ vector_store = "loaded"
    /\ current_metadata = Meta(Src1, 0)
    /\ filename = extract_filename_from_metadata(current_metadata)
    /\ output_file = NoFile
    /\ pc = "start"
    /\ source_file = <<>>
    /\ results = <<>>
    /\ all_chunks = <<>>
    /\ full_document = <<>>
    /\ field_idx = 0
    /\ extracted_data = EmptyDict
    /\ oggi = NoClock
    /\ pre_validation = EmptyDict
    /\ calls = <<>>
    /\ devs = 0
    /\ exchange = NoExchange
    /\ rag_system = "unset"
    /\ index \in Indexes
    /\ context = <<>>
    /\ main_pc = "off"
    /\ document_context = <<>>
    /\ main_log = <<>>
    /\ writer_thread = "unstarted"

\* reconstruct_full_document on the store's own answer.
ReconstructIndexed ==
    Reconstruct({SearchReturned(IndexSearch(index, SourceFileOf(current_metadata)))})

\* One call of extract_field_with_rag, its retrieval made on the store.
ExtractFieldIndexed ==
    /\ pc = "start"
    /\ \E i \in 1..Len(FieldOrder) :
         \E outcome \in FieldOutcomes(FieldOrder[i]) :
           LET field_name == FieldOrder[i]
               out == extract_field_with_rag(field_name, outcome)
           IN  /\ field_idx' = i
               /\ context' = FieldContext(index)
               /\ calls' = FieldCalls(field_name, outcome)
               /\ exchange' = FieldExchange(field_name, outcome)
               /\ extracted_data' = IF out.raised THEN extracted_data
                                    ELSE Put(EmptyDict, field_name, out.value)
               /\ pc' = IF out.raised THEN "failed" ELSE "field_returned"
    /\ UNCHANGED <<index, main_vars>>
    /\ UNCHANGED <<rag_system, vector_store, current_metadata, filename,
                   output_file,
                   source_file, results, all_chunks, full_document, oggi,
                   pre_validation, devs>>

NextIndex == ReconstructIndexed \/ ExtractFieldIndexed

\* The two searches of a run, each on every store within the bounds.
SpecIndex == InitIndex /\ [][NextIndex]_vars

-----------------------------------------------------------------------------
(* main(), lines 266-375, and the threads it starts                        *)

\* What get_most_relevant_document returns in place of a text when the
\* lookup fails (reader_agent.py lines 61, 87, 90).
StoreNotInitialized == <<"E","r","r","o","r","e",":"," ","V","e","c","t","o","r"," ","s","t","o","r","e"," ","n","o","n"," ","i","n","i","z","i","a","l","i","z","z","a","t","o",".">>
NoDocumentFound == <<"N","e","s","s","u","n"," ","d","o","c","u","m","e","n","t","o"," ","r","i","l","e","v","a","n","t","e"," ","t","r","o","v","a","t","o"," ","n","e","l"," ","d","a","t","a","b","a","s","e"," ","v","e","t","t","o","r","i","a","l","e",".">>
LookupRaised == <<"E","r","r","o","r","e"," ","n","e","l"," ","r","e","c","u","p","e","r","o"," ","d","o","c","u","m","e","n","t","o"," ","R","A","G",":"," ","t","i","m","e","o","u","t">>

\* page_content of the fragment the lookup resolved: a notice, a notice
\* that speaks of a clerical error, one that lists no document to attach.
NoticeText == <<"B","a","n","d","o"," ","A">>
ErrataText == <<"R","e","t","t","i","f","i","c","a","."," ","E","r","r","o","r","e"," ","m","a","t","e","r","i","a","l","e">>
NoAttachmentText == <<"N","e","s","s","u","n"," ","d","o","c","u","m","e","n","t","o"," ","d","a"," ","a","l","l","e","g","a","r","e">>
NoticeTexts == {NoticeText, ErrataText, NoAttachmentText}

Found(text, metadata) == [ok |-> TRUE, text |-> text, metadata |-> metadata]
Missing(text) == [ok |-> FALSE, text |-> text, metadata |-> EmptyMeta]

\* reader_agent.py lines 54-92
get_most_relevant_document(store, resolved) ==
    IF store = "none" THEN {Missing(StoreNotInitialized)}
    ELSE {Missing(LookupRaised), Missing(NoDocumentFound)}
             \cup {Found(text, resolved) : text \in NoticeTexts}

ErroreWord == <<"E","r","r","o","r","e">>
NessunDocumentoWords == <<"N","e","s","s","u","n"," ","d","o","c","u","m","e","n","t","o">>

\* A slip: the run never abandoned at the lookup.
LookupRejectedNever(text) == text # text

\* main.py:273  if "Errore" in document_context or "Nessun documento" in ...
LookupRejected(text) ==
    Contains(text, ErroreWord) \/ Contains(text, NessunDocumentoWords)

\* The test of line 273 tabulated over the texts a lookup can give.
LookupTexts ==
    NoticeTexts \cup {StoreNotInitialized, NoDocumentFound, LookupRaised}
LookupRejectedOf == [text \in LookupTexts |-> LookupRejected(text)]

\* threading.Thread.is_alive() of the extractor thread: started, and
\* run_extractor_agent neither returned nor was stopped.
ExtractorAlive ==
    pc \in {"start", "reconstructed", "fields", "description", "keywords",
            "status", "research", "crosscheck", "save"}

Log(event) == main_log' = Append(main_log, event)

InitMain ==
    /\ vector_store \in {"loaded", "none"}
    /\ current_metadata \in ResolvedMetadata
    /\ filename = <<>>
    /\ output_file \in {NoFile, StaleFile}
    /\ pc = "unstarted"
    /\ source_file = <<>>
    /\ results = <<>>
    /\ all_chunks = <<>>
    /\ full_document = <<>>
    /\ field_idx = 0
    /\ extracted_data = EmptyDict
    /\ oggi = NoClock
    /\ pre_validation = EmptyDict
    /\ calls = <<>>
    /\ devs = 0
    /\ exchange = NoExchange
    /\ rag_system = "unset"
    /\ index = <<>>
    /\ context = <<>>
    /\ main_pc = "lookup"
    /\ document_context = <<>>
    /\ main_log = <<>>
    /\ writer_thread = "unstarted"

\* What the worker owns: main() changes none of it.
worker_vars ==
    <<vector_store, current_metadata, output_file, source_file, results,
      all_chunks, full_document, field_idx, extracted_data, oggi,
      pre_validation, calls, devs, rag_system, exchange>>

\* lines 270-275: the lookup, the filename, and the return None of line 275.
FindDocument ==
    /\ main_pc = "lookup"
    /\ \E found \in get_most_relevant_document(vector_store, current_metadata) :
         /\ document_context' = found.text
         /\ filename' = extract_filename_from_metadata(found.metadata)
         /\ IF LookupRejectedOf[found.text]
            THEN /\ main_pc' = "returned"
                 /\ main_log' = main_log \o <<IF found.ok THEN "found" ELSE "not_found",
                                              "abandoned">>
            ELSE /\ main_pc' = "start_thread"
                 /\ Log(IF found.ok THEN "found" ELSE "not_found")
    /\ UNCHANGED <<worker_vars, store_vars, pc, writer_thread>>

\* lines 283-288
StartExtractor ==
    /\ main_pc = "start_thread"
    /\ pc' = "start"
    /\ main_pc' = "chat"
    /\ Log("started")
    /\ UNCHANGED <<worker_vars, store_vars, filename, document_context,
                   writer_thread>>

\* lines 290-297: the first answer and the chat; an exception they let
\* through ends main() in the except clause of line 372.
Chat ==
    /\ main_pc = "chat"
    /\ \E raised \in BOOLEAN :
         IF raised
         THEN main_pc' = "returned" /\ Log("error")
         ELSE main_pc' = "join1" /\ main_log' = main_log
    /\ UNCHANGED <<worker_vars, store_vars, pc, filename, document_context,
                   writer_thread>>

\* lines 301 and 306: join(timeout=60), join(timeout=30).  Each returns when
\* the thread has ended or, the thread still running, when its timeout has
\* elapsed.
Join ==
    /\ main_pc \in {"join1", "join2"}
    /\ main_pc' = IF main_pc = "join1" THEN "alive1" ELSE "alive2"
    /\ Log(IF ExtractorAlive THEN "timed_out" ELSE "joined")
    /\ UNCHANGED <<worker_vars, store_vars, pc, filename, document_context,
                   writer_thread>>

\* A slip: main waits again for as long as the worker runs.
AfterWaitAgain(n, alive) ==
    IF alive THEN "join2" ELSE IF n = 1 THEN "show_json" ELSE "writer"

\* Where main goes after the n-th is_alive() (lines 303-309).
AfterWait(n, alive) ==
    IF n = 1 THEN (IF alive THEN "join2" ELSE "show_json") ELSE "writer"

\* lines 303 and 308: is_alive(), and the report of line 309.
IsAlive ==
    /\ main_pc \in {"alive1", "alive2"}
    /\ LET n == IF main_pc = "alive1" THEN 1 ELSE 2
       IN  /\ main_pc' = AfterWait(n, ExtractorAlive)
           /\ main_log' = main_log \o
                  (IF ~ExtractorAlive THEN <<"finished">>
                   ELSE IF n = 1 THEN <<"alive">> ELSE <<"alive", "timeout">>)
    /\ UNCHANGED <<worker_vars, store_vars, pc, filename, document_context,
                   writer_thread>>

\* json.load of line 328 raises on a file that json.dump left unfinished.
LoadRaises(file) == file.state = "partial"

\* lines 310-338: the saved record shown; an exception ends main().
ShowJson ==
    /\ main_pc = "show_json"
    /\ IF LoadRaises(output_file)
       THEN main_pc' = "returned" /\ main_log' = main_log \o <<"completed", "error">>
       ELSE main_pc' = "writer" /\ Log("completed")
    /\ UNCHANGED <<worker_vars, store_vars, pc, filename, document_context,
                   writer_thread>>

\* str.replace(old, new) for an old that occurs at most once.
Replace(s, old, new) ==
    LET at == {i \in 1..(Len(s) - Len(old) + 1) : SubSeq(s, i, i + Len(old) - 1) = old}
    IN  IF at = {} THEN s
        ELSE LET i == CHOOSE j \in at : \A k \in at : j <= k
             IN  SubSeq(s, 1, i - 1) \o new \o SubSeq(s, i + Len(old), Len(s))

DotPdf == <<".","p","d","f">>
DotPDF == <<".","P","D","F">>
DotJson == <<".","j","s","o","n">>

\* main.py:96  filename.replace('.pdf', '.json').replace('.PDF', '.json')
JsonFilename(name) == Replace(Replace(name, DotPdf, DotJson), DotPDF, DotJson)

EndsWith(s, suffix) ==
    Len(s) >= Len(suffix) /\ SubSeq(s, Len(s) - Len(suffix) + 1, Len(s)) = suffix

\* line 346: json_dir.glob("*.json") finds the file of this document.
JsonFiles(file, name) ==
    IF file.state # "absent" /\ EndsWith(JsonFilename(name), DotJson)
    THEN {JsonFilename(name)} ELSE {}

\* lines 340-370: the writer thread started when a JSON file is there.
LaunchWriter ==
    /\ main_pc = "writer"
    /\ IF JsonFiles(output_file, filename) # {}
       THEN /\ writer_thread' = "alive"
            /\ main_pc' = "join_writer"
            /\ Log("writer_started")
       ELSE /\ writer_thread' = writer_thread
            /\ main_pc' = "returned"
            /\ Log("no_json")
    /\ UNCHANGED <<worker_vars, store_vars, pc, filename, document_context>>

\* lines 358-370: join(timeout=30) on the writer, then return True.
JoinWriter ==
    /\ main_pc = "join_writer"
    /\ main_pc' = "returned"
    /\ Log(IF writer_thread = "alive" THEN "writer_alive" ELSE "writer_finished")
    /\ UNCHANGED <<worker_vars, store_vars, pc, filename, document_context,
                   writer_thread>>

\* run_writer_agent, lines 163-183: it reads the JSON files and ends; its
\* errors are caught at line 180.
RunWriter ==
    /\ writer_thread = "alive"
    /\ writer_thread' = "finished"
    /\ UNCHANGED <<worker_vars, store_vars, pc, filename, document_context,
                   main_pc, main_log>>

\* What the end of the process makes of a thread: both threads are daemon
\* threads (lines 287 and 355), a running one is stopped with the process.
AtExit(alive, state) == IF alive THEN "killed" ELSE state

\* lines 377-390: main() has returned, the script prints and ends.
ProcessExit ==
    /\ main_pc = "returned"
    /\ main_pc' = "exited"
    /\ pc' = AtExit(ExtractorAlive, pc)
    /\ writer_thread' = AtExit(writer_thread = "alive", writer_thread)
    /\ UNCHANGED <<worker_vars, store_vars, filename, document_context, main_log>>

NextMain ==
    \/ FindDocument
    \/ StartExtractor
    \/ Chat
    \/ Join
    \/ IsAlive
    \/ ShowJson
    \/ LaunchWriter
    \/ JoinWriter
    \/ RunWriter
    \/ ProcessExit
    \/ ReconstructRun
    \/ CheckDocument
    \/ ExtractField
    \/ DeriveDescription
    \/ DeriveKeywords
    \/ DeriveStatus
    \/ DateResearch
    \/ CrossCheck
    \/ Persist

\* main() from the document lookup on, with the threads it starts.
SpecMain == InitMain /\ [][NextMain]_vars

-----------------------------------------------------------------------------
(* Properties                                                              *)

CanonicalKeys == {AllKeys[i] : i \in 1..Len(AllKeys)}

\* extract_structured_info_hybrid has returned its record.
Returned == pc \in {"save", "done", "returned"}

\* The fragment contents of the reconstructed text, in order.
DocChunks == SelectSeq(full_document, LAMBDA seg : seg.kind = "chunk")

\* A returned fragment belongs to the requested source.
OfRequestedSource(doc) ==
    "source" \in doc.metadata.keys /\ doc.metadata.source = source_file

FragmentPage(doc) ==
    IF "page" \in doc.metadata.keys THEN doc.metadata.page ELSE 0

Count(seq, Test(_)) == Cardinality({i \in 1..Len(seq) : Test(seq[i])})

\* C1: whenever the extraction returns a record, the record holds all eleven
\* canonical keys.
C1_AllElevenKeys == Returned => DOMAIN extracted_data = CanonicalKeys

\* C2: every value of the returned record is a string, and a non-empty one
\* (the sentinel included).
C2_ValuesAreNonEmptyStrings ==
    Returned =>
        \A k \in DOMAIN extracted_data :
            extracted_data[k].t = "str" /\ extracted_data[k].v # <<>>

\* C3: from the start of the consistency pass on, the record keeps its keys,
\* and a key whose value differs from the one it had when the pass started
\* held the sentinel then and holds something else now.
C3_PassOnlyFillsSentinels ==
    pc \in {"research", "crosscheck", "save", "done", "returned"} =>
        /\ DOMAIN extracted_data = DOMAIN pre_validation
        /\ \A k \in DOMAIN extracted_data :
              extracted_data[k] # pre_validation[k] =>
                  pre_validation[k] = Sentinel /\ extracted_data[k] # Sentinel

\* C3 witness: the re-search filled the missing closing date, the cross-check
\* (which offered a new value for every key) filled the open status, and the
\* issuing body resolved by its field extraction is still there.
C3_Witness ==
    /\ pc = "save"
    /\ pre_validation["Chiusura"] = Sentinel
    /\ extracted_data["Chiusura"] = Str(DateC)
    /\ pre_validation["Aperto"] = Sentinel
    /\ extracted_data["Aperto"] = Filler
    /\ extracted_data["Ente erogatore"] = Str(<<"R", "L">>)

DateOnly(at) == SubSeq(at, 1, 3)

\* C4: right after the derivation, the open status is "si" when the day of
\* datetime.now() is on or before the day of a closing date that parses, "no"
\* when it is after it, and the sentinel when the closing date is the sentinel
\* or does not parse.
C4_StatusComparesCalendarDates ==
    pc = "research" =>
        LET chiusura == extracted_data["Chiusura"]
            parsed == Strptime(chiusura.v)
        IN  IF chiusura # Sentinel /\ parsed.ok
            THEN extracted_data["Aperto"] =
                   (IF LexLE(DateOnly(oggi), DateOnly(parsed.at))
                    THEN Str(Si) ELSE Str(No))
            ELSE extracted_data["Aperto"] = Sentinel

ContentsOnPage(p) ==
    LET on == SelectSeq(DocChunks, LAMBDA seg : seg.page = p)
    IN  [i \in 1..Len(on) |-> on[i].content]

ReturnedOnPage(p) ==
    LET on == SelectSeq(results,
                        LAMBDA doc : OfRequestedSource(doc) /\ FragmentPage(doc) = p)
    IN  [i \in 1..Len(on) |-> on[i].page_content]

\* C5: the reconstructed text holds the fragments of the requested source by
\* non-decreasing page, and the fragments of one page in the order in which
\* the search returned them.
C5_SortedByPageAndStable ==
    pc # "start" =>
        /\ \A i \in 1..(Len(DocChunks) - 1) : DocChunks[i].page <= DocChunks[i + 1].page
        /\ \A p \in Pages : ContentsOnPage(p) = ReturnedOnPage(p)

\* C5 witness: three fragments of the requested source returned as page 1,
\* page 0, page 1, the two of page 1 with different contents.
C5_Witness ==
    /\ pc = "reconstructed"
    /\ source_file = Src1
    /\ results = <<[page_content |-> "L", metadata |-> Meta(Src1, 1)],
                   [page_content |-> "A", metadata |-> Meta(Src1, 0)],
                   [page_content |-> "A", metadata |-> Meta(Src1, 1)]>>
    /\ Len(DocChunks) = 3

\* C6: every chunk kept by the reconstruction carries the requested source,
\* and the text holds each content exactly as often as fragments of the
\* requested source carry it: nothing of another source, or of a fragment
\* without source metadata, is in it.
C6_OnlyRequestedSource ==
    pc # "start" =>
        /\ \A i \in 1..Len(all_chunks) :
              /\ "source" \in all_chunks[i].metadata.keys
              /\ all_chunks[i].metadata.source = source_file
        /\ \A c \in Contents :
              Count(DocChunks, LAMBDA seg : seg.content = c)
                = Count(results,
                        LAMBDA doc : OfRequestedSource(doc) /\ doc.page_content = c)

\* C6 witness: the search returned a fragment of another source, a fragment
\* without metadata and a fragment of the requested source.
C6_Witness ==
    /\ pc = "reconstructed"
    /\ Len(DocChunks) = 1
    /\ \E i \in 1..Len(results) : results[i].metadata = EmptyMeta
    /\ \E i \in 1..Len(results) :
          /\ "source" \in results[i].metadata.keys
          /\ results[i].metadata.source # source_file
          /\ results[i].page_content = "L"
    /\ DocChunks[1].content = "A"

\* Position of the last fragment content before position i, 0 when none.
PrevChunk(i) ==
    LET before == {j \in 1..(i - 1) : full_document[j].kind = "chunk"}
    IN  IF before = {} THEN 0 ELSE CHOOSE j \in before : \A k \in before : k <= j

MarkerBefore(i) == i > 1 /\ full_document[i - 1].kind = "marker"

\* A marker is followed by a fragment content of the page it names.
MarkersIntroduceTheirPage ==
    \A i \in 1..Len(full_document) :
        full_document[i].kind = "marker" =>
            /\ i < Len(full_document)
            /\ full_document[i + 1].kind = "chunk"
            /\ full_document[i + 1].page = full_document[i].page

\* Between two consecutive fragment contents there is a marker exactly when
\* their pages differ.
MarkerBetweenIffPageChanges ==
    \A i \in 1..Len(full_document) :
        (full_document[i].kind = "chunk" /\ PrevChunk(i) # 0) =>
            (MarkerBefore(i) <=> full_document[PrevChunk(i)].page # full_document[i].page)

\* The contents are those of the returned fragments, none changed or dropped.
ContentsKept == \A p \in Pages : ContentsOnPage(p) = ReturnedOnPage(p)

C8_EmptyDocumentHaltsRun ==
    (pc # "start" /\ rag_system # "None" /\ full_document = <<>>) =>
        /\ pc \in {"reconstructed", "halted"}
        /\ Len(calls) = 1
        /\ calls[1].op = "search"
        /\ extracted_data = EmptyDict
        /\ output_file \in {NoFile, StaleFile}

\* C8 witness: the search returned fragments, none of the requested source;
\* the run has stopped and the file of an earlier run is untouched.
C8_Witness ==
    /\ pc = "halted"
    /\ results # <<>>
    /\ vector_store = "loaded"
    /\ output_file = StaleFile

NoFragmentMatches == \A i \in 1..Len(results) : ~OfRequestedSource(results[i])

\* C9: the reconstruction never raises, and it returns the empty text when
\* the search raised, when the store is not initialized and when no returned
\* fragment is of the requested source.
C9_EmptyTextWithoutRaising ==
    pc # "start" =>
        /\ pc # "failed"
        /\ (~calls[1].ok \/ vector_store = "none" \/ NoFragmentMatches)
              => full_document = <<>>

\* C9 witness: the search of an initialized store raised and the function
\* returned.
C9_Witness ==
    /\ pc = "reconstructed"
    /\ vector_store = "loaded"
    /\ ~calls[1].ok
    /\ full_document = <<>>

\* Number of fields whose extraction has returned.
Processed ==
    IF pc \in {"start", "reconstructed", "halted"} THEN 0
    ELSE IF pc = "fields" THEN field_idx - 1
    ELSE Len(FieldOrder)

FieldCallsOf(f) ==
    SelectSeq(calls, LAMBDA c : c.site = f /\ c.op \in {"rag", "llm"})

RagSites ==
    LET rag == SelectSeq(calls, LAMBDA c : c.op = "rag")
    IN  [i \in 1..Len(rag) |-> rag[i].site]

\* C10: a retrieval or model error during one field never ends the run; the
\* field gets the sentinel; and the fields are attempted one by one in the
\* fixed order, each with one retrieval and (unless that raised) one model
\* call, whatever happened to the fields before it.
C10_FieldFailureStaysLocal ==
    /\ pc = "failed" => calls[Len(calls)].op = "write"
    /\ RagSites = SubSeq(FieldOrder, 1, Processed)
    /\ \A i \in 1..Processed :
          LET f == FieldOrder[i]
              cs == FieldCallsOf(f)
          IN  /\ cs \in {<<Call("rag", f, FALSE)>>,
                         <<Call("rag", f, TRUE), Call("llm", f, FALSE)>>,
                         <<Call("rag", f, TRUE), Call("llm", f, TRUE)>>}
              /\ (pc \in {"fields", "description", "keywords", "status"}
                    /\ ~cs[Len(cs)].ok) => extracted_data[f] = Sentinel

\* C10 witness: the retrieval of the first field and the model call of the
\* third raised; both hold the sentinel and the last field was still resolved.
C10_Witness ==
    /\ pc = "description"
    /\ calls[2] = Call("rag", "Ente erogatore", FALSE)
    /\ Call("llm", "Apertura", FALSE) \in {calls[i] : i \in 1..Len(calls)}
    /\ extracted_data["Ente erogatore"] = Sentinel
    /\ extracted_data["Apertura"] = Sentinel
    /\ extracted_data["Beneficiari"] = Str(<<"R", "L">>)

FieldReturned == pc = "field_returned"

\* The trimmed completion of the latest exchange.
Trimmed == Strip(exchange.text)

\* Number of '/'-delimited components of a string.
Components(x) == Cardinality({i \in 1..Len(x) : x[i] = "/"}) + 1

DateFields == {"Apertura", "Chiusura"}

\* C11: for a date field, the validator rejects every trimmed answer that is
\* neither the sentinel nor made of exactly three '/'-delimited components;
\* "31/12/2024" and the sentinel pass, "31-12-2024" fails.
C11_ValidatorRejectsNonDates ==
    (FieldReturned /\ exchange.site \in DateFields /\ exchange.kind = "text") =>
        /\ (Trimmed # SentinelText /\ Components(Trimmed) # 3)
              => exchange.verdict = "reject"
        /\ Trimmed = Date3112 => exchange.verdict = "accept"
        /\ Trimmed = SentinelText => exchange.verdict = "accept"
        /\ Trimmed = Dash3112 => exchange.verdict = "reject"

\* C11 witness: the closing-date extraction got "31-12-2024" and the
\* validator rejected it.
C11_Witness ==
    /\ FieldReturned
    /\ exchange.site = "Chiusura"
    /\ exchange.text = Dash3112
    /\ exchange.verdict = "reject"
    /\ extracted_data["Chiusura"] = Sentinel

\* C12: for a date field, every trimmed answer made of exactly three
\* '/'-delimited components is returned by the extraction unchanged.
C12_ThreeComponentsAlwaysAccepted ==
    (FieldReturned /\ exchange.site \in DateFields /\ exchange.kind = "text"
       /\ Components(Trimmed) = 3)
        => extracted_data[exchange.site] = Str(Trimmed)

\* C13: when the validator of a date field rejects the trimmed answer, the
\* extraction returns the sentinel; for a field without validator it returns
\* the trimmed answer as it is.
C13_RejectedAnswerGivesSentinel ==
    (FieldReturned /\ exchange.kind = "text") =>
        /\ (exchange.site \in DateFields /\ Validator(Trimmed) = "reject")
              => extracted_data[exchange.site] = Sentinel
        /\ exchange.site \notin DateFields
              => extracted_data[exchange.site] = Str(Trimmed)

\* C13 witness: the opening-date extraction got "1/7/2025" surrounded by
\* nothing else, the validator rejected it and the sentinel came back.
C13_Witness ==
    /\ FieldReturned
    /\ exchange.site = "Apertura"
    /\ exchange.text = ShortDate
    /\ Validator(ShortDate) = "reject"
    /\ extracted_data["Apertura"] = Sentinel

\* C14: a consistency step (date re-search, cross-check) that ends in its
\* except clause, or finds nothing to parse, leaves the record exactly as it
\* was before the step, and the run goes on.
C14_FailedStepLeavesRecord ==
    [][(pc \in {"research", "crosscheck"} /\ exchange' # exchange
          /\ (exchange'.excepted \/ exchange'.kind = "no_json"))
         => (extracted_data' = extracted_data /\ pc' # "failed")]_vars

\* C15: in the returned record the opening date and the closing date are
\* each the sentinel or a string the date validator accepts.
C15_DatesAreSentinelOrValid ==
    Returned =>
        \A k \in DateFields :
            \/ extracted_data[k] = Sentinel
            \/ extracted_data[k].t = "str" /\ Validator(extracted_data[k].v) = "accept"

\* C16: in the returned record the open status is "si", "no" or the sentinel.
C16_StatusIsSiNoOrSentinel ==
    Returned => extracted_data["Aperto"] \in {Str(Si), Str(No), Sentinel}

\* C17: in the returned record "Nome file" is the filename the caller
\* supplied, whatever that filename and whatever the model answered.
C17_FilenameCopiedVerbatim ==
    Returned => extracted_data["Nome file"] = Str(filename)

\* The stages of a run in the order the claim gives them.
StageOrder ==
    <<"reconstruct", "Ente erogatore", "Titolo dell'avviso", "Apertura",
      "Chiusura", "Dotazione finanziaria", "Contributo", "Beneficiari",
      "Descrizione aggiuntiva", "Parole chiave", "date_search", "validation",
      "json">>

StageRank(site) == CHOOSE i \in 1..Len(StageOrder) : StageOrder[i] = site

Rank(c) == StageRank(c.site)

CallsAtOrAfter(site) == {i \in 1..Len(calls) : Rank(calls[i]) >= StageRank(site)}

\* C18: the calls of a run follow the stage order: the reconstruction search
\* once and first, the seven fields in their fixed order each with its
\* retrieval before its model call, then description, keywords, status and
\* filename, then date re-search and cross-check; a derivation call is made
\* only after all seven fields have been attempted, the status and filename
\* only after the keywords, a validation call only after status and filename.
C18_StagesInFixedOrder ==
    /\ \A i, j \in 1..Len(calls) : i < j => Rank(calls[i]) <= Rank(calls[j])
    /\ \A i \in 1..Len(calls) : calls[i].op = "search" => i = 1
    /\ (rag_system = "reader") => (calls # <<>> /\ calls[1].op = "search")
    /\ \A i \in 1..Len(RagSites) : RagSites[i] = StageOrder[i + 1]
    /\ \A i, j \in 1..Len(calls) :
          (calls[i].site = calls[j].site /\ calls[i].op = "rag" /\ calls[j].op = "llm")
              => i < j
    /\ CallsAtOrAfter("Descrizione aggiuntiva") # {}
          => (Len(RagSites) = Len(FieldOrder) /\ "Beneficiari" \in DOMAIN extracted_data)
    /\ "Aperto" \in DOMAIN extracted_data
          => (\E i \in 1..Len(calls) : calls[i].site = "Parole chiave")
    /\ "Nome file" \in DOMAIN extracted_data <=> "Aperto" \in DOMAIN extracted_data
    /\ CallsAtOrAfter("date_search") # {} => "Nome file" \in DOMAIN extracted_data

\* C18 witness: a run over a long document with an unresolved date has made
\* all its calls: the search, fourteen field calls, description, keywords,
\* date re-search and cross-check.
C18_Witness ==
    /\ pc = "save"
    /\ Len(calls) = 19
    /\ calls[1].op = "search"
    /\ calls[16].site = "Descrizione aggiuntiva"
    /\ calls[17].site = "Parole chiave"
    /\ calls[18].site = "date_search"
    /\ calls[19].site = "validation"

\* C19: once the field extraction has started on a document, the extraction
\* eventually returns its record, and the run is never ended by an error
\* before that (the only error that ends it comes after the save).
C19_PipelineAlwaysReturns ==
    /\ (pc = "fields") ~> Returned
    /\ [](pc = "failed" => (calls # <<>> /\ calls[Len(calls)].op = "write"))

\* C19 witness: the record was returned after a retrieval error in the first
\* field and a cross-check answer json.loads could not read.
C19_Witness ==
    /\ Returned
    /\ full_document # <<>>
    /\ Call("rag", "Ente erogatore", FALSE) \in {calls[i] : i \in 1..Len(calls)}
    /\ rag_system = "reader"
    /\ exchange.site = "validation"
    /\ exchange.kind = "bad_json"
    /\ exchange.excepted

\* C20: field, derivation and validation calls are only ever made with a
\* retrieval collaborator that is present and whose store is loaded.
C20_NoWorkWithoutRetrieval ==
    (\E i \in 1..Len(calls) : calls[i].op \in {"rag", "llm"})
        => (rag_system = "reader" /\ vector_store = "loaded")

CallsOf(op, site) == {i \in 1..Len(calls) : calls[i].op = op /\ calls[i].site = site}

AfterResearch == pc \in {"crosscheck", "save", "done", "returned", "failed"}

\* C21: every field is attempted once (one retrieval, at most one model
\* call, whatever came of them); the date re-search is made at most once,
\* and it is made exactly when a date field held the sentinel after the
\* derivation.
C21_OneAttemptOneResearch ==
    /\ \A i \in 1..Len(FieldOrder) :
          /\ Cardinality(CallsOf("rag", FieldOrder[i])) = (IF i <= Processed THEN 1 ELSE 0)
          /\ Cardinality(CallsOf("llm", FieldOrder[i])) <= 1
    /\ Cardinality(CallsOf("llm", "date_search")) <= 1
    /\ ~AfterResearch => CallsOf("llm", "date_search") = {}
    /\ AfterResearch =>
          (CallsOf("llm", "date_search") # {}
             <=> (\/ pre_validation["Apertura"] = Sentinel
                  \/ pre_validation["Chiusura"] = Sentinel))

\* C21 witness: the first field failed in its retrieval and was not tried
\* again; both dates were resolved and the record was returned without a
\* re-search.
C21_Witness ==
    /\ pc = "save"
    /\ Call("rag", "Ente erogatore", FALSE) \in {calls[i] : i \in 1..Len(calls)}
    /\ extracted_data["Ente erogatore"] = Sentinel
    /\ pre_validation["Apertura"] = Str(DateA)
    /\ pre_validation["Chiusura"] = Str(DateC)
    /\ CallsOf("llm", "date_search") = {}
    /\ CallsOf("llm", "validation") # {}

LastCall == calls[Len(calls)]

FailedDerivation(site) ==
    /\ Len(calls') = Len(calls) + 1
    /\ calls'[Len(calls')] = Call("llm", site, FALSE)

\* C22: a derivation step whose model call fails writes the fixed fallback
\* of that field (the fallback sentence for the description, the fallback
\* keywords for the keywords), changes no other field, and the run goes on
\* to its next stage.
C22_FailedDerivationGivesFallback ==
    [][/\ FailedDerivation("Descrizione aggiuntiva") =>
            /\ extracted_data' =
                 Put(extracted_data, "Descrizione aggiuntiva", Str(FallbackDesc))
            /\ pc' = "keywords"
       /\ FailedDerivation("Parole chiave") =>
            /\ extracted_data' = Put(extracted_data, "Parole chiave", Str(FallbackKw))
            /\ pc' = "status"]_vars

\* C22 witness: both derivation calls failed, both fields hold their
\* fallbacks, and the run went on to persist its record.
C22_Witness ==
    /\ pc = "done"
    /\ \E i, j \in 1..Len(calls) :
          /\ calls[i] = Call("llm", "Descrizione aggiuntiva", FALSE)
          /\ calls[j] = Call("llm", "Parole chiave", FALSE)
    /\ extracted_data["Descrizione aggiuntiva"] = Str(FallbackDesc)
    /\ extracted_data["Parole chiave"] = Str(FallbackKw)
    /\ extracted_data["Ente erogatore"] # Sentinel

ClosingDateParses(data) ==
    /\ data["Chiusura"] # Sentinel
    /\ data["Chiusura"].t = "str"
    /\ Strptime(data["Chiusura"].v).ok

\* C27: in the returned record the open status agrees with the closing date
\* of that same record: it is "si" or "no" when the closing date parses as a
\* calendar date, and the sentinel when the closing date is the sentinel or
\* does not parse.
C27_StatusFollowsFinalClosingDate ==
    Returned =>
        IF ClosingDateParses(extracted_data)
        THEN extracted_data["Aperto"] \in {Str(Si), Str(No)}
        ELSE extracted_data["Aperto"] = Sentinel

FragmentsOfSource(ix, src) ==
    SelectSeq(ix, LAMBDA doc : SourceMatches(doc.metadata, src))

\* C26: the reconstruction is complete: every fragment the store holds for
\* the requested source is among the fragments the reconstructed text is
\* made of, however many fragments the store holds.
C26_EveryFragmentOfSourceKept ==
    (pc = "reconstructed" /\ main_pc = "off") =>
        Len(all_chunks) = Len(FragmentsOfSource(index, source_file))

\* C28: every fragment the retrieval of a field extraction supplied
\* belongs to the source document of the run.
C28_ContextFromRunSource ==
    pc = "field_returned" =>
        \A i \in 1..Len(context) :
            SourceMatches(context[i].metadata, SourceFileOf(current_metadata))

Logged(event) == \E i \in 1..Len(main_log) : main_log[i] = event

\* What main logged of its waits on the extractor thread.
WaitLog ==
    SelectSeq(main_log,
              LAMBDA e : e \in {"timed_out", "joined", "alive", "finished", "timeout"})

Prefixes(seq) == {SubSeq(seq, 1, n) : n \in 0..Len(seq)}

\* The waits the claim allows: one wait, a second one only after the worker
\* was found running, and the report only after two waits that both timed
\* out with the worker found running after each.
AllowedWaits ==
    UNION {Prefixes(w) : w \in
        {<<"joined", "finished">>,
         <<"timed_out", "finished">>,
         <<"timed_out", "alive", "joined", "finished">>,
         <<"timed_out", "alive", "timed_out", "finished">>,
         <<"timed_out", "alive", "timed_out", "alive", "timeout">>}}

C24_ReportedWorkerNeverStopped ==
    Logged("timeout") => pc # "killed"

\* C25: the report writer is started only once the extractor thread has
\* ended: while a writer thread exists the extractor thread is not alive.
C25_WriterOnlyAfterExtractor ==
    writer_thread # "unstarted" => ~ExtractorAlive

\* C29: main abandons the run at the lookup exactly when the lookup failed.
C29_AbandonedIffLookupFailed ==
    Logged("abandoned") <=> Logged("not_found")

=============================================================================
